---- MODULE Spec2Model ----
(***************************************************************************)
(* Model of notebooks/sandbox/read_docs.py: the import fallback for the   *)
(* two parsing libraries, read_pdf, read_docx and the module-level block  *)
(* that writes the output file.  Text is a sequence of Unicode code       *)
(* points; a file is a sequence of bytes.                                 *)
(***************************************************************************)
EXTENDS Integers, Sequences, FiniteSets, TLC

VARIABLES
    pc,         \* position of the script
    lib,        \* lib[l]: "present" when `import l` succeeds, else "absent"
    pdf,        \* the PDF input: [exists, valid, pages, badPage]
    docxFile,   \* the DOCX input: [exists, valid, paragraphs]
    outFile,    \* the output file: [exists, data], data a byte sequence
    outOpen,    \* the handle `out` of line 29 is open
    pdfOpen,    \* the handle `f` of line 18 is open
    text,       \* read_pdf's local `text`
    page,       \* index of the next page of `for page in reader.pages`
    pdfText,    \* value returned by read_pdf
    docxText,   \* value returned by read_docx
    err,        \* the uncaught exception that ended the run, or "none"
    run,        \* number of the current run of the script
    outBefore,  \* the output file as the current run found it
    lastOut,    \* the output file as the previous successful run left it
    installedBefore, \* libraries that an earlier run installed
    writes,     \* out.write calls completed in the current run
    imports,    \* imports[l]: import statements of l executed in the current run
    missing,    \* libraries whose first import raised ImportError in the current run
    installs    \* installs[l]: pip installs of l attempted in the current run

vars == <<pc, lib, pdf, docxFile, outFile, outOpen, pdfOpen, text, page, pdfText,
          docxText, err, run, outBefore, lastOut, installedBefore, writes,
          imports, missing, installs>>

----------------------------------------------------------------------------
(* Bounds of the model *)

MaxPages == 2
MaxParas == 2
MaxRuns == 2

\* '\n'
NL == 10

\* Page and paragraph texts the inputs are built from: the empty text; "A",
\* U+00E9 (two bytes in UTF-8) and a newline of the text's own; and a lone
\* surrogate U+D800, which UTF-8 cannot encode.
Texts == { <<>>, <<65, 233, 10>>, <<55296>> }

Libs == {"PyPDF2", "docx"}

----------------------------------------------------------------------------
(* Literals of the script *)

\* "=== TEAM PROJECT INSTRUCTIONS ===\n"
Header1 ==
    <<61, 61, 61, 32, 84, 69, 65, 77, 32, 80, 82, 79, 74, 69, 67, 84, 32,
      73, 78, 83, 84, 82, 85, 67, 84, 73, 79, 78, 83, 32, 61, 61, 61, 10>>

\* Mutation of Header2: the second header without the newline before it
Header2_NoBlank ==
    <<61, 61, 61, 32, 66, 65, 83, 69, 32, 67, 65, 83, 69, 32, 49, 32,
      61, 61, 61, 10>>

\* "\n=== BASE CASE 1 ===\n"
Header2 ==
    <<10, 61, 61, 61, 32, 66, 65, 83, 69, 32, 67, 65, 83, 69, 32, 49, 32,
      61, 61, 61, 10>>

----------------------------------------------------------------------------
(* The "utf-8" codec of codecs.open, errors='strict' *)

IsSurrogate(c) == c >= 55296 /\ c <= 57343

Utf8Char(c) ==
    IF c < 128 THEN <<c>>
    ELSE IF c < 2048 THEN <<192 + (c \div 64), 128 + (c % 64)>>
    ELSE IF c < 65536
         THEN <<224 + (c \div 4096), 128 + ((c \div 64) % 64), 128 + (c % 64)>>
    ELSE <<240 + (c \div 262144), 128 + ((c \div 4096) % 64),
           128 + ((c \div 64) % 64), 128 + (c % 64)>>

\* the codec raises UnicodeEncodeError unless this holds
Encodable(s) == \A i \in 1..Len(s) : ~IsSurrogate(s[i])

RECURSIVE Utf8Encode(_)
Utf8Encode(s) ==
    IF s = <<>> THEN <<>> ELSE Utf8Char(Head(s)) \o Utf8Encode(Tail(s))

----------------------------------------------------------------------------
(* read_docx, line 27: '\n'.join([para.text for para in doc.paragraphs]) *)

RECURSIVE Join(_, _)
Join(sep, parts) ==
    IF parts = <<>> THEN <<>>
    ELSE IF Len(parts) = 1 THEN parts[1]
    ELSE parts[1] \o sep \o Join(sep, Tail(parts))

\* Mutation of read_docx: a newline after the last paragraph as well
read_docx_Trailing(doc) ==
    IF doc.paragraphs = <<>> THEN <<>> ELSE Join(<<NL>>, doc.paragraphs) \o <<NL>>

read_docx(doc) == Join(<<NL>>, doc.paragraphs)

\* Mutation of AppendPage: the page text without its newline
AppendPage_Bare(t, p) == t \o p

\* read_pdf, line 22: text += page.extract_text() + '\n'
AppendPage(t, p) == t \o p \o <<NL>>

----------------------------------------------------------------------------
(* Inputs *)

SeqsUpTo(S, n) == UNION { [1..k -> S] : k \in 0..n }

PdfInputs ==
    { [exists |-> FALSE, valid |-> FALSE, pages |-> <<>>, badPage |-> 0],
      [exists |-> TRUE, valid |-> FALSE, pages |-> <<>>, badPage |-> 0] }
    \cup { [exists |-> TRUE, valid |-> TRUE, pages |-> ps, badPage |-> b] :
             <<ps, b>> \in { x \in SeqsUpTo(Texts, MaxPages) \X (0..MaxPages) :
                               x[2] <= Len(x[1]) } }

DocxInputs ==
    { [exists |-> FALSE, valid |-> FALSE, paragraphs |-> <<>>],
      [exists |-> TRUE, valid |-> FALSE, paragraphs |-> <<>>] }
    \cup { [exists |-> TRUE, valid |-> TRUE, paragraphs |-> ps] :
             ps \in SeqsUpTo(Texts, MaxParas) }

NoFile == [exists |-> FALSE, data |-> <<>>]
\* a file left by something else: "A\n"
OldFile == [exists |-> TRUE, data |-> <<65, 10>>]

ZeroCount == [l \in Libs |-> 0]

Init ==
    /\ pc = "import_PyPDF2"
    /\ lib \in [Libs -> {"present", "absent"}]
    /\ pdf \in PdfInputs
    /\ docxFile \in DocxInputs
    /\ outFile \in {NoFile, OldFile}
    /\ outOpen = FALSE
    /\ pdfOpen = FALSE
    /\ text = <<>>
    /\ page = 1
    /\ pdfText = <<>>
    /\ docxText = <<>>
    /\ err = "none"
    /\ run = 1
    /\ outBefore = outFile
    /\ lastOut = NoFile
    /\ installedBefore = {}
    /\ writes = 0
    /\ imports = ZeroCount
    /\ missing = {}
    /\ installs = ZeroCount

----------------------------------------------------------------------------
(* Lines 5-15: the import fallback *)

inputs == <<pdf, docxFile>>
locals == <<text, page, pdfText, docxText>>
handles == <<outOpen, pdfOpen>>
history == <<run, outBefore, lastOut, installedBefore>>
counts == <<writes, imports, missing, installs>>

\* Mutation of Import: the install is attempted whether or not the import failed
Import_Always(l, here, next, install) ==
    /\ pc = here
    /\ imports' = [imports EXCEPT ![l] = @ + 1]
    /\ pc' = install
    /\ missing' = IF lib[l] = "present" THEN missing ELSE missing \cup {l}
    /\ UNCHANGED <<lib, inputs, outFile, handles, locals, err, history, writes,
                   installs>>

\* try: import l / except ImportError
Import(l, here, next, install) ==
    /\ pc = here
    /\ imports' = [imports EXCEPT ![l] = @ + 1]
    /\ pc' = IF lib[l] = "present" THEN next ELSE install
    /\ missing' = IF lib[l] = "present" THEN missing ELSE missing \cup {l}
    /\ UNCHANGED <<lib, inputs, outFile, handles, locals, err, history, writes,
                   installs>>

\* subprocess.check_call([... "pip", "install", l ...]) in the except block:
\* pip exits non-zero (CalledProcessError), or exits 0 with the library
\* importable, or exits 0 and the import still fails
Install(l, here, next) ==
    /\ pc = here
    /\ installs' = [installs EXCEPT ![l] = @ + 1]
    /\ \E outcome \in {"failed", "installed", "noeffect"} :
         /\ lib' = IF outcome = "installed" THEN [lib EXCEPT ![l] = "present"]
                   ELSE lib
         /\ pc' = IF outcome = "failed" THEN "failed" ELSE next
         /\ err' = IF outcome = "failed" THEN "CalledProcessError" ELSE err
    /\ UNCHANGED <<inputs, outFile, handles, locals, history, writes, imports,
                   missing>>

\* the second `import l`, inside the except block: its ImportError is uncaught
Reimport(l, here, next) ==
    /\ pc = here
    /\ imports' = [imports EXCEPT ![l] = @ + 1]
    /\ pc' = IF lib[l] = "present" THEN next ELSE "failed"
    /\ err' = IF lib[l] = "present" THEN err ELSE "ImportError"
    /\ UNCHANGED <<lib, inputs, outFile, handles, locals, history, writes,
                   missing, installs>>

ImportPyPDF2 == Import("PyPDF2", "import_PyPDF2", "import_docx", "install_PyPDF2")
InstallPyPDF2 == Install("PyPDF2", "install_PyPDF2", "reimport_PyPDF2")
ReimportPyPDF2 == Reimport("PyPDF2", "reimport_PyPDF2", "import_docx")
ImportDocx == Import("docx", "import_docx", "open_out", "install_docx")
InstallDocx == Install("docx", "install_docx", "reimport_docx")
ReimportDocx == Reimport("docx", "reimport_docx", "open_out")

----------------------------------------------------------------------------
(* Lines 29-33: the output block, with read_pdf (17-23) and read_docx (25-27) *)

\* Mutation of OpenOut: mode "a", the previous content is kept
OpenOut_Append ==
    /\ pc = "open_out"
    /\ outFile' = [outFile EXCEPT !.exists = TRUE]
    /\ outOpen' = TRUE
    /\ pc' = "write1"
    /\ UNCHANGED <<lib, inputs, pdfOpen, locals, err, history, counts>>

\* line 29: codecs.open(path, "w", "utf-8") creates or truncates the file
OpenOut ==
    /\ pc = "open_out"
    /\ outFile' = [exists |-> TRUE, data |-> <<>>]
    /\ outOpen' = TRUE
    /\ pc' = "write1"
    /\ UNCHANGED <<lib, inputs, pdfOpen, locals, err, history, counts>>

\* out.write(s): the codec encodes s, then the bytes go to the file; an
\* encoding error is raised before any byte is written, and leaving the with
\* block closes out
Write(s, here, next) ==
    /\ pc = here
    /\ IF Encodable(s)
       THEN /\ outFile' = [outFile EXCEPT !.data = @ \o Utf8Encode(s)]
            /\ writes' = writes + 1
            /\ pc' = next
            /\ UNCHANGED <<outOpen, err>>
       ELSE /\ outOpen' = FALSE
            /\ err' = "UnicodeEncodeError"
            /\ pc' = "failed"
            /\ UNCHANGED <<outFile, writes>>
    /\ UNCHANGED <<lib, inputs, pdfOpen, locals, history, imports, missing,
                   installs>>

\* Mutation of Raise: the handles are left open (no with blocks)
Raise_Leak(e) ==
    /\ pc' = "failed"
    /\ err' = e
    /\ UNCHANGED <<pdfOpen, outOpen>>

\* an exception leaves read_pdf's with block (closing f) and the output
\* block's with block (closing out), and ends the run
Raise(e) ==
    /\ pc' = "failed"
    /\ err' = e
    /\ pdfOpen' = FALSE
    /\ outOpen' = FALSE

\* Mutation of WriteHeader1: the header without its newline
WriteHeader1_NoNewline ==
    Write(SubSeq(Header1, 1, Len(Header1) - 1), "write1", "pdf_open")

\* line 30
WriteHeader1 == Write(Header1, "write1", "pdf_open")

\* Mutation of PdfOpen: a missing file is not noticed when it is opened
PdfOpen_NoCheck ==
    /\ pc = "pdf_open"
    /\ pdfOpen' = TRUE
    /\ pc' = "pdf_reader"
    /\ UNCHANGED <<outOpen, err>>
    /\ UNCHANGED <<lib, inputs, outFile, locals, history, counts>>

\* line 18: open(file_path, 'rb')
PdfOpen ==
    /\ pc = "pdf_open"
    /\ IF pdf.exists
       THEN /\ pdfOpen' = TRUE
            /\ pc' = "pdf_reader"
            /\ UNCHANGED <<outOpen, err>>
       ELSE Raise("FileNotFoundError")
    /\ UNCHANGED <<lib, inputs, outFile, locals, history, counts>>

\* lines 19-20: reader = PyPDF2.PdfReader(f); text = ''
PdfReader ==
    /\ pc = "pdf_reader"
    /\ IF pdf.valid
       THEN /\ text' = <<>>
            /\ page' = 1
            /\ pc' = "pdf_loop"
            /\ UNCHANGED <<handles, err>>
       ELSE /\ Raise("PdfReadError")
            /\ UNCHANGED <<text, page>>
    /\ UNCHANGED <<lib, inputs, outFile, pdfText, docxText, history, counts>>

\* lines 21-22: one iteration of the loop; extract_text may raise on a page
PdfLoop ==
    /\ pc = "pdf_loop"
    /\ page <= Len(pdf.pages)
    /\ IF page = pdf.badPage
       THEN /\ Raise("PdfReadError")
            /\ UNCHANGED <<text, page>>
       ELSE /\ text' = AppendPage(text, pdf.pages[page])
            /\ page' = page + 1
            /\ UNCHANGED <<pc, handles, err>>
    /\ UNCHANGED <<lib, inputs, outFile, pdfText, docxText, history, counts>>

\* line 23: return text, leaving the with block closes f
PdfReturn ==
    /\ pc = "pdf_loop"
    /\ page > Len(pdf.pages)
    /\ pdfText' = text
    /\ pdfOpen' = FALSE
    /\ pc' = "write2"
    /\ UNCHANGED <<lib, inputs, outFile, outOpen, text, page, docxText, err,
                   history, counts>>

\* line 31
WritePdf == Write(pdfText, "write2", "write3")

\* line 32
WriteHeader2 == Write(Header2, "write3", "docx")

\* Mutation of ReadDocx: the failure is recorded, and the run goes on with an
\* empty text
ReadDocx_Swallow ==
    /\ pc = "docx"
    /\ pc' = "write4"
    /\ IF docxFile.exists /\ docxFile.valid
       THEN /\ docxText' = read_docx(docxFile)
            /\ UNCHANGED err
       ELSE /\ docxText' = <<>>
            /\ err' = IF docxFile.exists THEN "BadZipFile"
                      ELSE "PackageNotFoundError"
    /\ UNCHANGED <<lib, inputs, outFile, handles, text, page, pdfText, history,
                   counts>>

\* lines 26-27: docx.Document(file_path), then the join
ReadDocx ==
    /\ pc = "docx"
    /\ IF docxFile.exists /\ docxFile.valid
       THEN /\ docxText' = read_docx(docxFile)
            /\ pc' = "write4"
            /\ UNCHANGED <<handles, err>>
       ELSE /\ Raise(IF docxFile.exists THEN "BadZipFile"
                     ELSE "PackageNotFoundError")
            /\ UNCHANGED docxText
    /\ UNCHANGED <<lib, inputs, outFile, text, page, pdfText, history, counts>>

\* Mutation of WriteDocx: a newline is added after the DOCX text
WriteDocx_Newline == Write(docxText \o <<NL>>, "write4", "close_out")

\* line 33
WriteDocx == Write(docxText, "write4", "close_out")

\* end of the with block of line 29: out is closed, the script ends
CloseOut ==
    /\ pc = "close_out"
    /\ outOpen' = FALSE
    /\ pc' = "done"
    /\ UNCHANGED <<lib, inputs, outFile, pdfOpen, locals, err, history, counts>>

\* the script is run again on the same inputs, in the environment the
\* previous run left
RunAgain ==
    /\ pc = "done"
    /\ run < MaxRuns
    /\ run' = run + 1
    /\ outBefore' = outFile
    /\ lastOut' = outFile
    /\ installedBefore' = installedBefore \cup {l \in Libs : installs[l] = 1}
    /\ pc' = "import_PyPDF2"
    /\ text' = <<>>
    /\ page' = 1
    /\ pdfText' = <<>>
    /\ docxText' = <<>>
    /\ writes' = 0
    /\ imports' = ZeroCount
    /\ missing' = {}
    /\ installs' = ZeroCount
    /\ UNCHANGED <<lib, inputs, outFile, handles, err>>

Next ==
    \/ ImportPyPDF2
    \/ InstallPyPDF2
    \/ ReimportPyPDF2
    \/ ImportDocx
    \/ InstallDocx
    \/ ReimportDocx
    \/ OpenOut
    \/ WriteHeader1
    \/ PdfOpen
    \/ PdfReader
    \/ PdfLoop
    \/ PdfReturn
    \/ WritePdf
    \/ WriteHeader2
    \/ ReadDocx
    \/ WriteDocx
    \/ CloseOut
    \/ RunAgain

Spec == Init /\ [][Next]_vars

TypeOK ==
    /\ pc \in {"import_PyPDF2", "install_PyPDF2", "reimport_PyPDF2", "import_docx",
               "install_docx", "reimport_docx", "open_out", "write1", "pdf_open",
               "pdf_reader", "pdf_loop", "write2", "write3", "docx", "write4",
               "close_out", "done", "failed"}
    /\ outOpen \in BOOLEAN /\ pdfOpen \in BOOLEAN
    /\ run \in 1..MaxRuns
    /\ writes \in 0..4

----------------------------------------------------------------------------
(* Properties *)

\* "=== TEAM PROJECT INSTRUCTIONS ===" and its line end
TeamLine ==
    <<61, 61, 61, 32, 84, 69, 65, 77, 32, 80, 82, 79, 74, 69, 67, 84, 32,
      73, 78, 83, 84, 82, 85, 67, 84, 73, 79, 78, 83, 32, 61, 61, 61>> \o <<10>>

\* "=== BASE CASE 1 ==="
BaseCaseHeader ==
    <<61, 61, 61, 32, 66, 65, 83, 69, 32, 67, 65, 83, 69, 32, 49, 32, 61, 61, 61>>

BaseCaseLine == BaseCaseHeader \o <<10>>

IsPrefix(p, s) == Len(p) <= Len(s) /\ SubSeq(s, 1, Len(p)) = p

\* T_1 + "\n" + T_2 + "\n" + ... + T_N + "\n", built from the last page back
RECURSIVE PagesText(_)
PagesText(ps) ==
    IF Len(ps) = 0 THEN <<>>
    ELSE PagesText(SubSeq(ps, 1, Len(ps) - 1)) \o ps[Len(ps)] \o <<10>>

\* P_1 + "\n" + P_2 + ... + "\n" + P_M, built from the last paragraph back
RECURSIVE ParasText(_)
ParasText(ps) ==
    IF Len(ps) = 0 THEN <<>>
    ELSE IF Len(ps) = 1 THEN ps[1]
    ELSE ParasText(SubSeq(ps, 1, Len(ps) - 1)) \o <<10>> \o ps[Len(ps)]

AfterReadPdf == {"write2", "write3", "docx", "write4", "close_out", "done"}
AfterReadDocx == {"write4", "close_out", "done"}
ImportStage == {"import_PyPDF2", "install_PyPDF2", "reimport_PyPDF2",
                "import_docx", "install_docx", "reimport_docx"}
InOutputBlock == {"write1", "pdf_open", "pdf_reader", "pdf_loop", "write2",
                  "write3", "docx", "write4", "close_out"}
ImportErrors == {"CalledProcessError", "ImportError"}
PdfErrors == {"FileNotFoundError", "PdfReadError"}
DocxErrors == {"PackageNotFoundError", "BadZipFile"}

\* C1 as stated: after a successful run the output file is the first header
\* line, the PDF text, the line "=== BASE CASE 1 ===" and the DOCX text, with
\* nothing between or around the parts.
C1_Original ==
    pc = "done" =>
        /\ outFile.exists
        /\ outFile.data = Utf8Encode(TeamLine \o PagesText(pdf.pages)
                                     \o BaseCaseLine \o ParasText(docxFile.paragraphs))

\* C1 amended: after a successful run the output file is the UTF-8 encoding of
\* the first header line, the PDF text, one newline, the line
\* "=== BASE CASE 1 ===" and the DOCX text, and nothing else; what the file
\* held before the run is gone.
C1_OutputContent ==
    pc = "done" =>
        /\ outFile.exists
        /\ outFile.data = Utf8Encode(TeamLine \o PagesText(pdf.pages) \o <<10>>
                                     \o BaseCaseLine \o ParasText(docxFile.paragraphs))

C1_Witness ==
    /\ pc = "done"
    /\ run = 1
    /\ outBefore.exists /\ outBefore.data # <<>>
    /\ Len(pdf.pages) = 2 /\ pdf.pages[1] # <<>>
    /\ Len(docxFile.paragraphs) = 2 /\ docxFile.paragraphs[2] # <<>>

\* C2: when read_pdf returns, its result is T_1 + "\n" + ... + T_N + "\n" for
\* the N >= 0 page texts in document order, and inside the loop `text` is that
\* of the pages read so far.
C2_ReadPdf ==
    /\ pc \in AfterReadPdf => pdfText = PagesText(pdf.pages)
    /\ pc = "pdf_loop" => text = PagesText(SubSeq(pdf.pages, 1, page - 1))

C2_Witness ==
    /\ pc = "write2"
    /\ Len(pdf.pages) = 2
    /\ pdf.pages[1] # <<>> /\ pdf.pages[2] = <<>>
    /\ pdfText = pdf.pages[1] \o <<10, 10>>

\* C3: when read_docx returns, its result is P_1 + "\n" + ... + "\n" + P_M for
\* the M >= 0 paragraph texts in document order: the empty string for M = 0,
\* P_1 alone for M = 1, no newline before the first or after the last.
C3_ReadDocx ==
    pc \in AfterReadDocx =>
        /\ docxText = ParasText(docxFile.paragraphs)
        /\ Len(docxFile.paragraphs) = 0 => docxText = <<>>
        /\ Len(docxFile.paragraphs) = 1 => docxText = docxFile.paragraphs[1]

C3_Witness ==
    /\ pc = "write4"
    /\ Len(docxFile.paragraphs) = 2
    /\ docxFile.paragraphs[1] # <<>> /\ docxFile.paragraphs[2] # <<>>
    /\ docxText = docxFile.paragraphs[1] \o <<10>> \o docxFile.paragraphs[2]

\* C4 as stated: when the PDF path does not exist the run ends with a
\* file-access error and the output file is not touched: none is created,
\* and an existing one is left as it was or empty.
C4_Original ==
    (pc = "failed" /\ err = "FileNotFoundError") =>
        IF outBefore.exists
        THEN outFile = outBefore \/ outFile = [exists |-> TRUE, data |-> <<>>]
        ELSE ~outFile.exists

\* C4 amended: when the PDF path does not exist and both libraries import,
\* the run ends with the uncaught FileNotFoundError of read_pdf's open, never
\* reaching a later step; by then the output file has been created or
\* emptied and the first header written, so the file holds exactly the first
\* header line, and both handles are closed.
C4_MissingPdf ==
    ~pdf.exists =>
        /\ pc \in ImportStage \cup {"open_out", "write1", "pdf_open", "failed"}
        /\ (pc = "failed" /\ err \notin ImportErrors) =>
              /\ err = "FileNotFoundError"
              /\ outFile = [exists |-> TRUE, data |-> Utf8Encode(TeamLine)]
              /\ ~outOpen /\ ~pdfOpen

C4_Witness ==
    /\ ~pdf.exists
    /\ pc = "failed"
    /\ err = "FileNotFoundError"
    /\ outBefore.exists

\* C5 as stated: with a PDF of 0 pages the PDF section is empty and the first
\* header line is followed at once by "=== BASE CASE 1 ===".
C5_Original ==
    (writes >= 3 /\ pdf.exists /\ pdf.valid /\ Len(pdf.pages) = 0) =>
        /\ pdfText = <<>>
        /\ IsPrefix(Utf8Encode(TeamLine \o BaseCaseHeader), outFile.data)

\* C5 amended: with a PDF of 0 pages the PDF section is empty, and the first
\* header line is followed by exactly one newline (an empty line) and then
\* the line "=== BASE CASE 1 ===".
C5_EmptyPdf ==
    (writes >= 3 /\ pdf.exists /\ pdf.valid /\ Len(pdf.pages) = 0) =>
        /\ pdfText = <<>>
        /\ IsPrefix(Utf8Encode(TeamLine \o <<10>> \o BaseCaseLine), outFile.data)

C5_Witness ==
    /\ pc = "done"
    /\ pdf.exists /\ pdf.valid /\ Len(pdf.pages) = 0
    /\ docxFile.paragraphs # <<>>

C7_Idempotent ==
    (pc = "done" /\ run >= 2) => outFile = lastOut

C7_Witness ==
    /\ pc = "done"
    /\ run = 2
    /\ pdfText # <<>> /\ docxText # <<>>
    /\ outBefore = lastOut /\ lastOut.exists
    /\ installedBefore = Libs /\ missing = {}

\* C8: no handle is open when the run has ended, by success or by failure;
\* the PDF handle is open only inside read_pdf and the output handle only
\* inside the output block.
C8_HandlesClosed ==
    /\ pc \in {"done", "failed"} => (~outOpen /\ ~pdfOpen)
    /\ pdfOpen => pc \in {"pdf_reader", "pdf_loop"}
    /\ outOpen => pc \in InOutputBlock

C8_Witness ==
    /\ pc = "failed"
    /\ err = "PdfReadError"
    /\ page = 2
    /\ writes = 1

\* C9: per library and run, an install is attempted at most once and only
\* after its import raised ImportError, and a completed install is followed
\* by exactly one re-import; when the install or the re-import fails the run
\* ends there, before any file is opened: the output file is as the run
\* found it.
C9_ImportFallback ==
    /\ \A l \in Libs :
         /\ installs[l] <= 1
         /\ installs[l] = 1 => (l \in missing /\ imports[l] >= 1)
         /\ imports[l] <= installs[l] + 1
    /\ pc \notin ImportStage \cup {"failed"} =>
         \A l \in Libs : imports[l] = installs[l] + 1
    /\ pc \in ImportStage => (outFile = outBefore /\ ~outOpen /\ ~pdfOpen /\ writes = 0)
    /\ err \in ImportErrors =>
         /\ pc = "failed"
         /\ outFile = outBefore
         /\ ~outOpen /\ ~pdfOpen
         /\ writes = 0

C9_Witness ==
    /\ pc = "failed"
    /\ err = "CalledProcessError"
    /\ installs["PyPDF2"] = 1 /\ imports["PyPDF2"] = 2
    /\ installs["docx"] = 1 /\ imports["docx"] = 1
    /\ outBefore.exists

\* what a successful run writes for a PDF of 0 pages and a DOCX of 0 paragraphs
ShortestOutput == Utf8Encode(TeamLine \o <<10>> \o BaseCaseLine)

====
